---- MODULE Spec2Model ----
(***************************************************************************)
(* certissue: validation of the command-line arguments followed by the     *)
(* batch rendering of certificates (src/certissue.py).                     *)
(*                                                                         *)
(* Strings whose characters the program inspects (the mode, the file       *)
(* names, the roster names) are sequences of one-character strings, so     *)
(* that str.lower(), os.path.splitext() and the f-string that builds an    *)
(* output file name are computed character by character. Messages, which   *)
(* the program only emits, are TLA+ strings.                               *)
(***************************************************************************)
EXTENDS Integers, Sequences, FiniteSets, TLC

\* ------------------------------------------------------------------ bounds
MaxW == 2        \* widest template image drawn
MaxH == 2        \* tallest template image drawn
MaxRows == 2     \* longest roster drawn

\* --------------------------------------------------------- program constants
MaxColor == 255  \* upper end of a color channel

\* ------------------------------------------------------------------ strings
\* str.lower() on the letters the inputs are built from
LowerChar(c) ==
  CASE c = "O" -> "o" [] c = "N" -> "n" [] c = "F" -> "f"
    [] c = "P" -> "p" [] c = "G" -> "g" [] c = "C" -> "c"
    [] c = "S" -> "s" [] c = "V" -> "v" [] OTHER -> c

Lower(s) == [k \in 1..Len(s) |-> LowerChar(s[k])]

\* str.rfind(ch), 1-based; 0 when ch does not occur
RFind(s, ch) ==
  LET hits == {k \in 1..Len(s) : s[k] = ch}
  IN IF hits = {} THEN 0 ELSE CHOOSE k \in hits : \A m \in hits : m <= k

\* os.path.splitext(p)[1]: the suffix from the last dot, unless that dot
\* lies before the last separator or only dots precede it in the base name
SplitextExt(p) ==
  LET sepIndex == RFind(p, "/")
      dotIndex == RFind(p, ".")
  IN IF dotIndex > sepIndex
        /\ \E k \in (sepIndex + 1)..(dotIndex - 1) : p[k] # "."
     THEN SubSeq(p, dotIndex, Len(p))
     ELSE <<>>

\* ------------------------------------------------------- process termination
Running == [kind |-> "running", msg |-> "", status |-> 0]
\* a function that returns True
Returned == [kind |-> "return", msg |-> "", status |-> 0]
\* sys.exit("text"): the text goes to stderr and the exit status is 1
SysExitMsg(m) == [kind |-> "exit", msg |-> m, status |-> 1]
\* sys.exit(): no message, exit status 0
SysExitNone == [kind |-> "exit", msg |-> "", status |-> 0]
\* an exception nobody catches: traceback, exit status 1
Uncaught(e) == [kind |-> "exception", msg |-> e, status |-> 1]

\* --------------------------------------------------------------- validators
validate_test_mode(test_mode) ==
  IF Lower(test_mode) # <<"o", "n">> /\ Lower(test_mode) # <<"o", "f", "f">>
  THEN SysExitMsg("Test mode must either be ON or OFF")
  ELSE Returned

validate_font(font_name, fonts_list) ==
  IF font_name \notin fonts_list THEN SysExitNone ELSE Returned

validate_image_extension(certification) ==
  IF Lower(Lower(SplitextExt(certification))) = <<".", "p", "n", "g">>
  THEN Returned
  ELSE SysExitMsg("Certification is not a .PNG file")

\* validate_coordinates with the right and bottom borders excluded
validate_coordinates_exclusive(x, y, width, height) ==
  IF x >= width \/ x < 0 \/ y < 0 \/ y >= height
  THEN SysExitMsg("Invalid (x,y) coordinates")
  ELSE Returned

validate_coordinates(x, y, width, height) ==
  IF x > width \/ x < 0 \/ y < 0 \/ y > height
  THEN SysExitMsg("Invalid (x,y) coordinates")
  ELSE Returned

validate_csv_extension(csv_file) ==
  IF Lower(SplitextExt(csv_file)) = <<".", "c", "s", "v">>
  THEN Returned
  ELSE SysExitMsg("CSV file is not a .csv file")

\* validate_rgb_colors with the top of the range excluded
validate_rgb_colors_exclusive(red, green, blue) ==
  IF red >= MaxColor \/ red < 0
  THEN SysExitMsg("Red must have value of range [0,255]")
  ELSE IF green >= MaxColor \/ green < 0
  THEN SysExitMsg("Green must have value of range [0,255]")
  ELSE IF blue >= MaxColor \/ blue < 0
  THEN SysExitMsg("Blue must have value of range [0,255]")
  ELSE Returned

validate_rgb_colors(red, green, blue) ==
  IF red > MaxColor \/ red < 0
  THEN SysExitMsg("Red must have value of range [0,255]")
  ELSE IF green > MaxColor \/ green < 0
  THEN SysExitMsg("Green must have value of range [0,255]")
  ELSE IF blue > MaxColor \/ blue < 0
  THEN SysExitMsg("Blue must have value of range [0,255]")
  ELSE Returned

\* ------------------------------------------------------------------- inputs
ModeON == <<"O", "N">>
ModeOn == <<"O", "n">>
ModeOff == <<"o", "f", "f">>
ModeOFF == <<"O", "F", "F">>
ModeBad == <<"o", "n", "n">>

ImagePng == <<"c", ".", "p", "n", "g">>
ImagePNG == <<"c", ".", "P", "n", "G">>
ImageJpg == <<"c", ".", "j", "p", "g">>
ImageDot == <<".", "p", "n", "g">>

RosterCsv == <<"r", ".", "c", "s", "v">>
RosterCSV == <<"r", ".", "C", "S", "V">>
RosterTxt == <<"r", ".", "t", "x", "t">>

\* the fonts directory, and the orders os.listdir may report it in
FontsDir == {"FreeMono.ttf", "FreeSans.ttf"}
Listings ==
  {l \in [1..Cardinality(FontsDir) -> FontsDir] :
      \A a, b \in DOMAIN l : a # b => l[a] # l[b]}

\* the template image as Image.open reports it; NoImage before it is read
Images == [width : 1..MaxW, height : 1..MaxH]
NoImage == [width |-> -1, height |-> -1]

\* a CSV row is a function from column names to values
Row(first, last) == [c \in {"First name", "Last name"} |->
                       IF c = "First name" THEN first ELSE last]
People ==
  { Row(<<"A">>, <<"B", " ", "C">>),
    Row(<<"A", " ", "B">>, <<"C">>),
    Row(<<"D">>, <<"E">>) }
RowLists(S) == UNION {[1..n -> S] : n \in 0..MaxRows}
\* a roster file whose header lacks the two columns, with one data row
OtherRows == <<[c \in {"Name"} |-> <<"A">>]>>
CsvFiles == RowLists(People) \cup {OtherRows}

ArgRecords(T, FO, I, X, Y, FI, R, G, B) ==
  [t : T, fo : FO, i : I, x : X, y : Y, s : {40}, fi : FI, r : R, g : G, b : B]

\* command lines that mix valid and invalid values of every argument
ArgsMain ==
  ArgRecords({ModeON, ModeOn, ModeOff, ModeOFF, ModeBad},
             {"FreeMono.ttf", "Missing.ttf"},
             {ImagePng, ImagePNG, ImageJpg, ImageDot},
             {-1, 1}, {1}, {RosterCsv, RosterCSV, RosterTxt},
             {0, MaxColor + 1}, {0, MaxColor + 1}, {0, MaxColor + 1})
\* command lines that sweep the coordinates across the image borders
ArgsCoordinates ==
  ArgRecords({ModeON}, {"FreeMono.ttf"}, {ImagePng},
             (-1)..(MaxW + 1), (-1)..(MaxH + 1), {RosterCsv}, {0}, {0}, {0})
\* command lines that sweep the colors across the channel range
Channel == {-1, 0, MaxColor, MaxColor + 1}
ArgsColors ==
  ArgRecords({ModeON}, {"FreeMono.ttf"}, {ImagePng},
             {0}, {0}, {RosterCsv}, Channel, Channel, Channel)

\* -------------------------------------------------------------------- state
VARIABLES
  args,            \* the parsed command line (parse_arguments)
  pc,              \* the call main is about to make, or a place inside it
  passed,          \* the validators that have returned, in order
  stdout,          \* the lines printed
  exit,            \* how the process ended
  image,           \* the template's size as validate_coordinates read it
  names_list,      \* get_full_name's list
  number_of_rows,  \* get_full_name's count
  i,               \* the loop variable of issue_certificates
  files,           \* the output files in the working directory
  writes           \* every completed save: entry index and file name

vars == <<args, pc, passed, stdout, exit, image, names_list, number_of_rows,
          i, files, writes>>

\* main with the colors validated only after the certificates are issued
MainOrderLateColors ==
  << "validate_test_mode", "validate_font", "validate_image_extension",
     "validate_coordinates", "validate_csv_extension",
     "get_full_name", "issue_certificates", "validate_rgb_colors" >>

\* main with the roster extension validated before the coordinates
MainOrderCsvFirst ==
  << "validate_test_mode", "validate_font", "validate_image_extension",
     "validate_csv_extension", "validate_coordinates", "validate_rgb_colors",
     "get_full_name", "issue_certificates" >>

\* the calls of main, in order
MainOrder ==
  << "validate_test_mode", "validate_font", "validate_image_extension",
     "validate_coordinates", "validate_csv_extension", "validate_rgb_colors",
     "get_full_name", "issue_certificates" >>

\* the call that follows call `name` in main
NextCall(name) ==
  LET k == CHOOSE n \in 1..Len(MainOrder) : MainOrder[n] = name
  IN IF k < Len(MainOrder) THEN MainOrder[k + 1] ELSE "done"

Init ==
  /\ args \in ArgsMain \cup ArgsCoordinates \cup ArgsColors
  /\ pc = MainOrder[1]
  /\ passed = <<>>
  /\ stdout = <<>>
  /\ exit = Running
  /\ image = NoImage
  /\ names_list = <<>>
  /\ number_of_rows = 0
  /\ i = 0
  /\ files = {}
  /\ writes = <<>>

\* a validator returns and main goes on, or it ends the process
Validated(name, result) ==
  /\ pc = name
  /\ IF result = Returned
     THEN /\ pc' = NextCall(name)
          /\ passed' = Append(passed, name)
          /\ exit' = exit
     ELSE /\ pc' = "done"
          /\ passed' = passed
          /\ exit' = result

Raised(e) ==
  /\ pc' = "done"
  /\ exit' = Uncaught(e)

ValidateTestMode ==
  /\ Validated("validate_test_mode", validate_test_mode(args.t))
  /\ UNCHANGED <<args, stdout, image, names_list, number_of_rows, i, files, writes>>

ValidateFont ==
  /\ pc = "validate_font"
  /\ \E fonts_list \in Listings, listed \in BOOLEAN :
       IF ~listed
       THEN /\ Raised("FileNotFoundError")
            /\ UNCHANGED <<passed, stdout>>
       ELSE LET result == validate_font(args.fo, {fonts_list[k] : k \in DOMAIN fonts_list})
            IN /\ Validated("validate_font", result)
               /\ stdout' = IF result = Returned THEN stdout
                            ELSE stdout \o <<"Available fonts:">> \o fonts_list
  /\ UNCHANGED <<args, image, names_list, number_of_rows, i, files, writes>>

ValidateImageExtension ==
  /\ Validated("validate_image_extension", validate_image_extension(args.i))
  /\ UNCHANGED <<args, stdout, image, names_list, number_of_rows, i, files, writes>>

ValidateCoordinates ==
  /\ pc = "validate_coordinates"
  /\ \E img \in Images, opened \in BOOLEAN :
       IF ~opened
       THEN /\ Raised("FileNotFoundError")
            /\ UNCHANGED <<passed, image>>
       ELSE /\ image' = img
            /\ Validated("validate_coordinates",
                         validate_coordinates(args.x, args.y, img.width, img.height))
  /\ UNCHANGED <<args, stdout, names_list, number_of_rows, i, files, writes>>

ValidateCsvExtension ==
  /\ Validated("validate_csv_extension", validate_csv_extension(args.fi))
  /\ UNCHANGED <<args, stdout, image, names_list, number_of_rows, i, files, writes>>

ValidateRgbColors ==
  /\ Validated("validate_rgb_colors", validate_rgb_colors(args.r, args.g, args.b))
  /\ UNCHANGED <<args, stdout, image, names_list, number_of_rows, i, files, writes>>

\* ------------------------------------------------------------ roster loader
\* the loop of get_full_name over the rows csv.DictReader yields
RECURSIVE ReadRows(_, _, _)
ReadRows(rows, names, number) ==
  IF rows = <<>>
  THEN [raised |-> FALSE, names |-> names, number_of_rows |-> number]
  ELSE LET row == Head(rows)
       IN IF {"First name", "Last name"} \subseteq DOMAIN row
          THEN ReadRows(Tail(rows),
                        Append(names, [first_name |-> row["First name"],
                                       last_name |-> row["Last name"]]),
                        number + 1)
          ELSE [raised |-> TRUE, names |-> names, number_of_rows |-> number]

get_full_name(rows) == ReadRows(rows, <<>>, 0)

GetFullName ==
  /\ pc = "get_full_name"
  /\ \E rows \in CsvFiles, opened \in BOOLEAN :
       IF ~opened
       THEN /\ Raised("FileNotFoundError")
            /\ UNCHANGED <<names_list, number_of_rows>>
       ELSE LET got == get_full_name(rows)
            IN IF got.raised
               THEN /\ Raised("KeyError")
                    /\ UNCHANGED <<names_list, number_of_rows>>
               ELSE /\ names_list' = got.names
                    /\ number_of_rows' = got.number_of_rows
                    /\ pc' = NextCall("get_full_name")
                    /\ exit' = exit
  /\ UNCHANGED <<args, passed, stdout, image, i, files, writes>>

\* ---------------------------------------------------------------- renderer
\* f"{first_name} {last_name}"
FullName(entry) == entry.first_name \o <<" ">> \o entry.last_name

TestPdf == <<"T", "E", "S", "T", ".", "p", "d", "f">>
TestPng == <<"T", "E", "S", "T", ".", "p", "n", "g">>
PdfName(entry) == FullName(entry) \o <<".", "p", "d", "f">>
\* the PNG named with the lower-case extension test mode uses
PngNameLower(entry) == FullName(entry) \o <<".", "p", "n", "g">>
PngName(entry) == FullName(entry) \o <<".", "P", "N", "G">>

\* the composited image, converted to RGB for the PDF and kept RGBA for the PNG
Rendered(format, mode, text) ==
  [format |-> format, mode |-> mode, text |-> text,
   at |-> <<args.x, args.y>>, fill |-> <<args.r, args.g, args.b, 255>>]
\* what a save that fails half-way leaves of a file it had opened for writing
Partial ==
  [format |-> "partial", mode |-> "", text |-> <<>>,
   at |-> <<args.x, args.y>>, fill |-> <<args.r, args.g, args.b, 255>>]

\* the working directory after `name` is (over)written with `content`
Written(name, content) ==
  {f \in files : f.name # name} \cup {[name |-> name, content |-> content]}

SaveOutcomes == {"saved", "refused", "truncated"}

\* Image.save inside a try/except that ignores a refused save
SaveIgnoringRefusal(outcome, entry, name, content, next, ending) ==
  CASE outcome = "saved" ->
         /\ files' = Written(name, content)
         /\ writes' = Append(writes, [entry |-> entry, name |-> name])
         /\ pc' = next
         /\ exit' = ending
    [] outcome = "refused" ->
         /\ pc' = next
         /\ exit' = ending
         /\ UNCHANGED <<files, writes>>
    [] outcome = "truncated" ->
         /\ Raised("OSError")
         /\ files' = Written(name, Partial)
         /\ UNCHANGED writes

\* Image.save(name): the file is written and the program goes on to `next`
\* (ending as `ending`), or the save raises, leaving the file untouched or,
\* since nothing is written atomically, truncated
Save(outcome, entry, name, content, next, ending) ==
  CASE outcome = "saved" ->
         /\ files' = Written(name, content)
         /\ writes' = Append(writes, [entry |-> entry, name |-> name])
         /\ pc' = next
         /\ exit' = ending
    [] outcome = "refused" ->
         /\ Raised("OSError")
         /\ UNCHANGED <<files, writes>>
    [] outcome = "truncated" ->
         /\ Raised("OSError")
         /\ files' = Written(name, Partial)
         /\ UNCHANGED writes

\* the mode compared without lower()
TestModeOnExact(mode) == mode = <<"o", "n">>

\* the test at the top of issue_certificates
TestModeOn(mode) == Lower(mode) = <<"o", "n">>

IssueCertificates ==
  /\ pc = "issue_certificates"
  /\ pc' = IF TestModeOn(args.t) THEN "test_pdf" ELSE "full_loop"
  /\ UNCHANGED <<args, passed, stdout, exit, image, names_list, number_of_rows,
                 i, files, writes>>

\* test mode: open the template, load the font, draw names_list[0], save the PDF
TestSavePdf ==
  /\ pc = "test_pdf"
  /\ \E drawn \in BOOLEAN, outcome \in SaveOutcomes :
       IF ~drawn
       THEN /\ Raised("OSError")
            /\ UNCHANGED <<files, writes>>
       ELSE IF Len(names_list) < 1
       THEN /\ Raised("IndexError")
            /\ UNCHANGED <<files, writes>>
       ELSE Save(outcome, 0, TestPdf,
                 Rendered("PDF", "RGB", FullName(names_list[1])),
                 "test_png", exit)
  /\ UNCHANGED <<args, passed, stdout, image, names_list, number_of_rows, i>>

\* test mode: save the PNG and leave
TestSavePng ==
  /\ pc = "test_png"
  /\ \E outcome \in SaveOutcomes :
       Save(outcome, 0, TestPng,
            Rendered("PNG", "RGBA", FullName(names_list[1])),
            "done", SysExitMsg("TEST certificates created successfully"))
  /\ UNCHANGED <<args, passed, stdout, image, names_list, number_of_rows, i>>

\* a loop that stops one round early
LoopCondShort(index, rows) == index < rows - 1

\* for i in range(number_of_rows): whether the loop has another round
LoopCond(index, rows) == index < rows

\* full mode, one round: open the template, load the font, draw names_list[i],
\* save the PDF
FullSavePdf ==
  /\ pc = "full_loop"
  /\ LoopCond(i, number_of_rows)
  /\ \E drawn \in BOOLEAN, outcome \in SaveOutcomes :
       IF ~drawn
       THEN /\ Raised("OSError")
            /\ UNCHANGED <<files, writes>>
       ELSE IF Len(names_list) < i + 1
       THEN /\ Raised("IndexError")
            /\ UNCHANGED <<files, writes>>
       ELSE Save(outcome, i, PdfName(names_list[i + 1]),
                 Rendered("PDF", "RGB", FullName(names_list[i + 1])),
                 "full_png", exit)
  /\ UNCHANGED <<args, passed, stdout, image, names_list, number_of_rows, i>>

\* full mode, the end of the round: save the PNG, then the next i
FullSavePng ==
  /\ pc = "full_png"
  /\ \E outcome \in SaveOutcomes :
       Save(outcome, i, PngName(names_list[i + 1]),
            Rendered("PNG", "RGBA", FullName(names_list[i + 1])),
            "full_loop", exit)
  /\ i' = IF pc' = "full_loop" THEN i + 1 ELSE i
  /\ UNCHANGED <<args, passed, stdout, image, names_list, number_of_rows>>

\* full mode, after the loop
FullExit ==
  /\ pc = "full_loop"
  /\ ~LoopCond(i, number_of_rows)
  /\ pc' = "done"
  /\ exit' = SysExitMsg("Certificates created successfully")
  /\ UNCHANGED <<args, passed, stdout, image, names_list, number_of_rows, i,
                 files, writes>>

Next ==
  \/ ValidateTestMode
  \/ ValidateFont
  \/ ValidateImageExtension
  \/ ValidateCoordinates
  \/ ValidateCsvExtension
  \/ ValidateRgbColors
  \/ GetFullName
  \/ IssueCertificates
  \/ TestSavePdf
  \/ TestSavePng
  \/ FullSavePdf
  \/ FullSavePng
  \/ FullExit

Spec == Init /\ [][Next]_vars

\* the interpreter runs the program to its end
FairSpec == Spec /\ WF_vars(Next)

\* ------------------------------------------------------------------ claims
\* the six checks in the order the specification gives them
SixChecks ==
  << "validate_test_mode", "validate_font", "validate_image_extension",
     "validate_coordinates", "validate_csv_extension", "validate_rgb_colors" >>

\* what a check answers on this command line and environment
CheckResult(c) ==
  CASE c = "validate_test_mode" -> validate_test_mode(args.t)
    [] c = "validate_font" -> validate_font(args.fo, FontsDir)
    [] c = "validate_image_extension" -> validate_image_extension(args.i)
    [] c = "validate_coordinates" ->
         validate_coordinates(args.x, args.y, image.width, image.height)
    [] c = "validate_csv_extension" -> validate_csv_extension(args.fi)
    [] c = "validate_rgb_colors" -> validate_rgb_colors(args.r, args.g, args.b)

Done == pc = "done"
\* the process was ended by a validator
ValidationFailed == Done /\ exit.kind = "exit" /\ Len(passed) < Len(SixChecks)
\* the roster has been loaded
RosterLoaded ==
  \/ pc \in {"issue_certificates", "test_pdf", "test_png", "full_loop", "full_png"}
  \/ names_list # <<>>
  \/ number_of_rows # 0
IsOn == Lower(args.t) = <<"o", "n">>
IsOff == Lower(args.t) = <<"o", "f", "f">>
TestSuccess == Done /\ exit.msg = "TEST certificates created successfully"
FullSuccess == Done /\ exit.msg = "Certificates created successfully"
IOFailed == exit.kind = "exception"
Entries == 1..Len(names_list)
\* the names the specification gives the outputs
Joined(e) == e.first_name \o <<" ">> \o e.last_name
JoinedPdf(e) == Joined(e) \o <<".", "p", "d", "f">>
JoinedPNG(e) == Joined(e) \o <<".", "P", "N", "G">>
NamedTestPdf == <<"T", "E", "S", "T", ".", "p", "d", "f">>
NamedTestPng == <<"T", "E", "S", "T", ".", "p", "n", "g">>
PdfFile(e) == [name |-> JoinedPdf(e), content |-> Rendered("PDF", "RGB", Joined(e))]
PngFile(e) == [name |-> JoinedPNG(e), content |-> Rendered("PNG", "RGBA", Joined(e))]
\* the saves of entries 0..n-1, each once, PDF then PNG, in file order
WritesOf(n) ==
  [k \in 1..(2 * n) |->
     LET e == (k - 1) \div 2
     IN [entry |-> e,
         name |-> IF k % 2 = 1 THEN JoinedPdf(names_list[e + 1])
                  ELSE JoinedPNG(names_list[e + 1])]]

\* C1: the roster is loaded and an output file is written only after all six
\* checks have passed; a run a check ends has loaded no roster and written
\* no file.
C1_NoSideEffectBeforeValidation ==
  /\ (pc = "get_full_name" \/ RosterLoaded \/ files # {} \/ writes # <<>>)
       => passed = SixChecks
  /\ ValidationFailed => ~RosterLoaded /\ files = {} /\ writes = <<>>

C1_Witness ==
  /\ ValidationFailed
  /\ exit.msg = "Red must have value of range [0,255]"
  /\ files = {}

\* C2: the checks run in the order mode, font, image extension, coordinates,
\* roster extension, color; the run ends with the failure of the earliest
\* violated check, and no later check has run.
C2_FirstFailureInOrder ==
  /\ \A k \in 1..Len(passed) : k <= Len(SixChecks) /\ passed[k] = SixChecks[k]
  /\ ValidationFailed =>
       LET k == Len(passed) + 1
       IN /\ exit = CheckResult(SixChecks[k])
          /\ \A j \in 1..(k - 1) : CheckResult(SixChecks[j]) = Returned
          /\ k < 4 => image = NoImage
          /\ k # 2 => stdout = <<>>
          /\ ~RosterLoaded

C2_Witness ==
  /\ ValidationFailed
  /\ exit.msg = "Invalid (x,y) coordinates"
  /\ CheckResult("validate_csv_extension") # Returned
  /\ CheckResult("validate_rgb_colors") # Returned

\* C3: in test mode with a valid configuration and a non-empty roster only
\* TEST.pdf and TEST.png are ever written, both from entry 0; a run without an
\* I/O failure ends with exactly these two files and the message "TEST
\* certificates created successfully".
C3_TestModeOnePair ==
  (IsOn /\ Len(names_list) >= 1) =>
    /\ \A f \in files : f.name \in {NamedTestPdf, NamedTestPng}
    /\ \A k \in DOMAIN writes : writes[k].entry = 0
    /\ (Done /\ ~IOFailed) =>
         /\ TestSuccess
         /\ files =
              { [name |-> NamedTestPdf,
                 content |-> Rendered("PDF", "RGB", Joined(names_list[1]))],
                [name |-> NamedTestPng,
                 content |-> Rendered("PNG", "RGBA", Joined(names_list[1]))] }
         /\ Len(writes) = 2

C3_Witness ==
  /\ TestSuccess
  /\ args.t = ModeON
  /\ Len(names_list) = MaxRows
  /\ Cardinality(files) = 2

\* C4 as stated: a full-mode run that completes leaves exactly 2N files, the
\* pair of each of the N entries.
C4_Exactly2NFiles ==
  FullSuccess =>
    /\ Cardinality(files) = 2 * Len(names_list)
    /\ \A k \in Entries : PdfFile(names_list[k]) \in files
                          /\ PngFile(names_list[k]) \in files

\* C4 amended: a full-mode run that completes has made exactly 2N saves and
\* leaves exactly the pair of each entry, which is 2D files for D distinct
\* full names: entries whose "{first_name} {last_name}" are equal share one
\* pair.
C4_TwoFilesPerDistinctName ==
  FullSuccess =>
    /\ Len(writes) = 2 * Len(names_list)
    /\ number_of_rows = Len(names_list)
    /\ files = {PdfFile(names_list[k]) : k \in Entries}
                 \cup {PngFile(names_list[k]) : k \in Entries}
    /\ Cardinality(files)
         = 2 * Cardinality({Joined(names_list[k]) : k \in Entries})

C4_Witness ==
  /\ FullSuccess
  /\ Len(names_list) = 2
  /\ names_list[1] # names_list[2]
  /\ Joined(names_list[1]) = Joined(names_list[2])
  /\ Cardinality(files) = 2

\* C5 as stated: every validation failure ends the process with a message
\* and a non-zero status, and both success paths end it with status zero.
C5_ExitStatus ==
  /\ ValidationFailed => exit.status # 0 /\ (exit.msg # "" \/ stdout # <<>>)
  /\ (TestSuccess \/ FullSuccess) => exit.status = 0

\* C6: once the template has been opened, the coordinate check has passed if
\* and only if 0 <= x <= width and 0 <= y <= height; otherwise the run has
\* ended with "Invalid (x,y) coordinates".
C6_CoordinatesInclusive ==
  image # NoImage =>
    IF 0 <= args.x /\ args.x <= image.width /\ 0 <= args.y /\ args.y <= image.height
    THEN Len(passed) >= 4 /\ passed[4] = "validate_coordinates"
    ELSE /\ Done
         /\ exit.kind = "exit"
         /\ exit.msg = "Invalid (x,y) coordinates"
         /\ Len(passed) = 3

C6_Witness ==
  /\ image # NoImage
  /\ args.x = image.width
  /\ args.y = image.height
  /\ Len(passed) >= 4

\* the message for the first channel out of [0,255], in the order red, green,
\* blue
FirstBadChannel(r, g, b) ==
  IF r < 0 \/ r > 255 THEN "Red must have value of range [0,255]"
  ELSE IF g < 0 \/ g > 255 THEN "Green must have value of range [0,255]"
  ELSE "Blue must have value of range [0,255]"

\* C7: once the color check has run, it has passed if and only if r, g and b
\* all lie in [0,255]; otherwise the run has ended with the message of the
\* first channel out of range in the order red, green, blue.
C7_ColorsInRange ==
  (Len(passed) >= 5 /\ pc # "validate_rgb_colors") =>
    IF \A c \in {args.r, args.g, args.b} : 0 <= c /\ c <= 255
    THEN Len(passed) = 6 /\ passed[6] = "validate_rgb_colors"
    ELSE /\ Done
         /\ exit.kind = "exit"
         /\ exit.msg = FirstBadChannel(args.r, args.g, args.b)
         /\ Len(passed) = 5

C7_Witness ==
  /\ Done
  /\ args.r = 255
  /\ args.g = 256
  /\ args.b = -1
  /\ exit.msg = "Green must have value of range [0,255]"

\* C8 as stated: test mode with a valid configuration and an empty roster,
\* the template and the font being readable, ends in the error "roster must
\* contain at least one entry", with no TEST file and no success message.
C8_EmptyRosterDefinedError ==
  (Done /\ IsOn /\ passed = SixChecks /\ names_list = <<>>
     /\ exit.msg \notin {"FileNotFoundError", "KeyError", "OSError"}) =>
    /\ exit.msg = "roster must contain at least one entry"
    /\ files = {}
    /\ ~TestSuccess

\* a full-mode run that an I/O failure ended while it processed entry i
FullFailed == Done /\ IsOff /\ passed = SixChecks /\ exit.msg = "OSError"

\* C9 as stated: when rendering or saving fails at entry k of a full-mode
\* run, both files of every entry before k remain as written, nothing of a
\* later entry has been written, and the run has not ended in success.
C9_EarlierFilesKept ==
  FullFailed =>
    /\ \A j \in 1..i : PdfFile(names_list[j]) \in files
                       /\ PngFile(names_list[j]) \in files
    /\ \A w \in DOMAIN writes : writes[w].entry <= i
    /\ ~FullSuccess

\* C9 amended: when rendering or saving fails at entry k of a full-mode run,
\* the saves made are exactly those of the entries before k, in order, and at
\* most the PDF of entry k; both files of every earlier entry whose full name
\* differs from entry k's remain as written; the run has not ended in success.
C9_EarlierFilesOfOtherNamesKept ==
  FullFailed =>
    /\ i < Len(names_list)
    /\ \A j \in 1..i :
         Joined(names_list[j]) # Joined(names_list[i + 1]) =>
           PdfFile(names_list[j]) \in files /\ PngFile(names_list[j]) \in files
    /\ \/ writes = WritesOf(i)
       \/ writes = Append(WritesOf(i), [entry |-> i, name |-> JoinedPdf(names_list[i + 1])])
    /\ ~FullSuccess

C9_Witness ==
  /\ FullFailed
  /\ i = 1
  /\ Joined(names_list[1]) # Joined(names_list[2])
  /\ Len(writes) = 3
  /\ Cardinality(files) = 4

====
